---------------------------- MODULE Spec2Model ----------------------------
(***************************************************************************)
(* A model of dns-monitor: the domain enumerator, the fetcher and the       *)
(* change detector (internal/dns), the retry executor (internal/common)    *)
(* and the check cycle of cmd/main.                                        *)
(*                                                                         *)
(* Go strings are modelled as sequences of byte values, so that            *)
(* fmt.Sprintf is a concatenation and sort.Strings a bytewise comparison.  *)
(***************************************************************************)
EXTENDS Integers, Sequences, FiniteSets, TLC

VARIABLES
    \* DetectChanges(oldRecords, newRecords) and its returned list
    oldRecords, newRecords, changes, dpc,
    \* one call of RetryWithExponentialBackoff: its parameters, its locals
    \* (i, delay, lastErr), where it stands, what it returned
    rAttempts, rInitialDelay, ri, rDelay, rLastErr, rpc, rResult,
    \* its environment: the context, the results operation() gave so far, the
    \* delays waited out, and whether the context was cancelled during a wait
    ctxDone, rOutcomes, rWaits, rCancelledInWait,
    \* main and performCheck: where main stands, *prevState, currentRecords,
    \* changes, the state file, config.NotifyOnErrors, the stop channel, the
    \* ticker channel, and what the current check cycle has sent and written
    mpc, prevState, currentRecords, mChanges, stateFile, notifyOnErrors,
    stopPending, tickPending, cycleLog,
    \* what LoadPreviousState returned to main, and how many check cycles
    \* have been started
    loadOutcome, cycles,
    \* generateDomainsToCheck(config) and its returned list
    eConfig, eDomains, epc,
    \* FetchDNSRecords: domainsToCheck, the two loop positions, allRecords,
    \* resp of the running queryDNS, the returned error, where it stands, and
    \* for every pair handled so far what became of its query
    fDomains, fi, fj, fAllRecords, fResp, fErr, fpc, fLog,
    \* the resolver: whether it answers, and how often that has changed
    resolverUp, flips,
    \* SavePreviousState(state) followed by LoadPreviousState(): the state
    \* saved, the state file, what the load returned, where the pair stands
    sState, sFile, sLoaded, spc,
    \* SendNotification(ctx, title, message): its arguments, and the title and
    \* message handed to the transport at every attempt
    nArgs, nTitle, nMessage, nHanded

detVars == <<oldRecords, newRecords, changes, dpc>>
retryVars == <<rAttempts, rInitialDelay, ri, rDelay, rLastErr, rpc, rResult,
               ctxDone, rOutcomes, rWaits, rCancelledInWait>>
monVars == <<mpc, prevState, currentRecords, mChanges, stateFile, notifyOnErrors,
             stopPending, tickPending, cycleLog, loadOutcome, cycles>>
enumVars == <<eConfig, eDomains, epc>>
fetchVars == <<fDomains, fi, fj, fAllRecords, fResp, fErr, fpc, fLog, resolverUp, flips>>
storeVars == <<sState, sFile, sLoaded, spc>>
notifyVars == <<nArgs, nTitle, nMessage, nHanded>>
vars == <<detVars, retryVars, monVars, enumVars, fetchVars, storeVars, notifyVars>>

-----------------------------------------------------------------------------
(* Generic helpers                                                         *)

Range(s) == {s[i] : i \in DOMAIN s}

Min(S) == CHOOSE x \in S : \A y \in S : x <= y

SeqsUpTo(S, n) == UNION {[1..k -> S] : k \in 0..n}

\* every enumeration order of the finite set S
Orders(S) == {o \in [1..Cardinality(S) -> S] : \A i, j \in 1..Cardinality(S) : o[i] = o[j] => i = j}

\* one enumeration order of the finite set S
RECURSIVE SetToSeq(_)
SetToSeq(S) == IF S = {} THEN <<>> ELSE LET x == CHOOSE x \in S : TRUE IN <<x>> \o SetToSeq(S \ {x})

RECURSIVE ConcatAll(_)
ConcatAll(ss) == IF ss = <<>> THEN <<>> ELSE Head(ss) \o ConcatAll(Tail(ss))

Count(s, e) == Cardinality({i \in DOMAIN s : s[i] = e})

-----------------------------------------------------------------------------
(* Strings as byte sequences                                               *)

sMX      == <<77, 88>>                      \* "MX"
sTXT     == <<84, 88, 84>>                  \* "TXT"
sNameA   == <<97, 46>>                      \* "a."
sNameW   == <<119, 46, 97, 46>>             \* "w.a."
sVal1    == <<49>>                          \* "1"
sVal2    == <<50, 48>>                      \* "20"
sNEW     == <<78, 69, 87>>                  \* "NEW"
sADDED   == <<65, 68, 68, 69, 68>>          \* "ADDED"
sREMOVED == <<82, 69, 77, 79, 86, 69, 68>>  \* "REMOVED"
sDELETED == <<68, 69, 76, 69, 84, 69, 68>>  \* "DELETED"
Colon    == 58
Space    == 32

\* Go's string order: bytewise, a proper prefix first
StrLeq(a, b) ==
    LET n == IF Len(a) < Len(b) THEN Len(a) ELSE Len(b)
        d == {i \in 1..n : a[i] # b[i]}
    IN  IF d = {} THEN Len(a) <= Len(b) ELSE a[Min(d)] < b[Min(d)]

\* variant: the list is returned as collected
SortStringsMutUnsorted(s) == s

RECURSIVE Insert(_, _)
Insert(e, s) ==
    IF s = <<>> THEN <<e>>
    ELSE IF StrLeq(e, Head(s)) THEN <<e>> \o s
    ELSE <<Head(s)>> \o Insert(e, Tail(s))

\* sort.Strings
RECURSIVE SortStrings(_)
SortStrings(s) == IF s = <<>> THEN <<>> ELSE Insert(Head(s), SortStrings(Tail(s)))

-----------------------------------------------------------------------------
(* internal/common: DNSRecord                                              *)

Values == {sVal1, sVal2}
TTLs   == {300, 600}

DNSRecord(t, n, v, ttl) == [type |-> t, name |-> n, value |-> v, ttl |-> ttl]

\* the records the detector is exercised on: three keys (two kinds under one
\* owner name, one kind under two owner names), two values each
DetKeys == {<<sMX, sNameA>>, <<sTXT, sNameA>>, <<sMX, sNameW>>}
DetRecords == {DNSRecord(k[1], k[2], v, 300) : k \in DetKeys, v \in Values}

MaxRecords == 2

-----------------------------------------------------------------------------
(* internal/dns: DetectChanges                                             *)

\* variant: the key is the owner name alone
formatRecordKeyMutNameOnly(recordType, recordName) == recordName

\* fmt.Sprintf("%s:%s", recordType, recordName)
formatRecordKey(recordType, recordName) == recordType \o <<Colon>> \o recordName

KeyOf(r) == formatRecordKey(r.type, r.name)

\* map[string][]DNSRecord: a function from the keys present to the records
\* of that key, in input order
buildRecordMap(records) ==
    [k \in {KeyOf(r) : r \in Range(records)} |->
        LET SameKey(r) == KeyOf(r) = k IN SelectSeq(records, SameKey)]

\* fmt.Sprintf("<TAG>: %s %s -> %s", Type, Name, Value)
FormatChange(tag, r) ==
    tag \o <<Colon, Space>> \o r.type \o <<Space>> \o r.name
        \o <<Space, 45, 62, Space>> \o r.value

formatNewRecordChanges(records) ==
    [i \in DOMAIN records |-> FormatChange(sNEW, records[i])]

\* variant: only the first value of the group is entered
createValueMapMutFirstOnly(records) ==
    IF records = <<>> THEN {} ELSE {records[1].value}

\* map[string]bool with every value of the group set to true
createValueMap(records) == {records[i].value : i \in DOMAIN records}

\* variant: the loop over oldRecs is missing
detectValueChangesMutNoRemoved(oldRecs, newRecs) ==
    LET oldValueMap == createValueMap(oldRecs)
        IsAdded(r) == r.value \notin oldValueMap
        added == SelectSeq(newRecs, IsAdded)
    IN  [i \in DOMAIN added |-> FormatChange(sADDED, added[i])]

\* variant: records are compared whole, ttl included
detectValueChangesMutWholeRecord(oldRecs, newRecs) ==
    LET IsAdded(r) == r \notin Range(oldRecs)
        IsRemoved(r) == r \notin Range(newRecs)
        added == SelectSeq(newRecs, IsAdded)
        removed == SelectSeq(oldRecs, IsRemoved)
    IN  [i \in DOMAIN added |-> FormatChange(sADDED, added[i])]
        \o [i \in DOMAIN removed |-> FormatChange(sREMOVED, removed[i])]

\* variant: values are compared by their number of occurrences
detectValueChangesMutCount(oldRecs, newRecs) ==
    LET N(recs, v) == Cardinality({i \in DOMAIN recs : recs[i].value = v})
        IsAdded(r) == N(newRecs, r.value) > N(oldRecs, r.value)
        IsRemoved(r) == N(oldRecs, r.value) > N(newRecs, r.value)
        added == SelectSeq(newRecs, IsAdded)
        removed == SelectSeq(oldRecs, IsRemoved)
    IN  [i \in DOMAIN added |-> FormatChange(sADDED, added[i])]
        \o [i \in DOMAIN removed |-> FormatChange(sREMOVED, removed[i])]

detectValueChanges(oldRecs, newRecs) ==
    LET oldValueMap == createValueMap(oldRecs)
        newValueMap == createValueMap(newRecs)
        IsAdded(r) == r.value \notin oldValueMap
        IsRemoved(r) == r.value \notin newValueMap
        added == SelectSeq(newRecs, IsAdded)
        removed == SelectSeq(oldRecs, IsRemoved)
    IN  [i \in DOMAIN added |-> FormatChange(sADDED, added[i])]
        \o [i \in DOMAIN removed |-> FormatChange(sREMOVED, removed[i])]

\* variant: a key missing from oldMap is compared against an empty group
detectAddedAndModifiedRecordsMutNoNew(oldMap, newMap, order) ==
    ConcatAll([i \in DOMAIN order |->
        detectValueChanges(IF order[i] \in DOMAIN oldMap THEN oldMap[order[i]] ELSE <<>>,
                           newMap[order[i]])])

\* `for key, newRecs := range newMap`: order is the iteration order of the map
detectAddedAndModifiedRecords(oldMap, newMap, order) ==
    ConcatAll([i \in DOMAIN order |->
        IF order[i] \notin DOMAIN oldMap
        THEN formatNewRecordChanges(newMap[order[i]])
        ELSE detectValueChanges(oldMap[order[i]], newMap[order[i]])])

\* variant: the `!exists` test is missing
detectDeletedRecordsMutAll(oldMap, newMap, order) ==
    ConcatAll([i \in DOMAIN order |->
        [j \in DOMAIN oldMap[order[i]] |-> FormatChange(sDELETED, oldMap[order[i]][j])]])

\* `for key, oldRecs := range oldMap`
detectDeletedRecords(oldMap, newMap, order) ==
    ConcatAll([i \in DOMAIN order |->
        IF order[i] \notin DOMAIN newMap
        THEN [j \in DOMAIN oldMap[order[i]] |-> FormatChange(sDELETED, oldMap[order[i]][j])]
        ELSE <<>>])

\* DetectChanges under given iteration orders of the two maps
DetectChangesOrd(oldRecs, newRecs, newOrder, oldOrder) ==
    LET oldRecordMap == buildRecordMap(oldRecs)
        newRecordMap == buildRecordMap(newRecs)
    IN  SortStrings(detectAddedAndModifiedRecords(oldRecordMap, newRecordMap, newOrder)
                    \o detectDeletedRecords(oldRecordMap, newRecordMap, oldOrder))

\* the list DetectChanges returns under one admissible iteration order
DetectChanges(oldRecs, newRecs) ==
    DetectChangesOrd(oldRecs, newRecs, SetToSeq(DOMAIN buildRecordMap(newRecs)),
                     SetToSeq(DOMAIN buildRecordMap(oldRecs)))

-----------------------------------------------------------------------------
(* internal/common: RetryWithExponentialBackoff                            *)

MaxAttempts == 5

\* what operation() may return: nil or one of two distinct errors
Errs == {"e1", "e2"}
OpResults == {"nil"} \cup Errs

\* initialDelay in milliseconds; every caller passes a positive delay
InitialDelays == {10, 500}

NoResult == [kind |-> "none", attempts |-> 0, wraps |-> "none"]
ReturnNil == [kind |-> "nil", attempts |-> 0, wraps |-> "none"]
\* ctx.Err()
ReturnCtxErr == [kind |-> "ctx", attempts |-> 0, wraps |-> "none"]
\* fmt.Errorf("operation failed after %d attempts: %w", attempts, lastErr)
ReturnAggregate(attempts, lastErr) ==
    [kind |-> "aggregate", attempts |-> attempts, wraps |-> lastErr]

\* variant: one attempt too few
LoopContinuesMutOffByOne(i, attempts) == i < attempts - 1

\* the loop condition `i < attempts`
LoopContinues(i, attempts) == i < attempts

\* variant: the first error is kept
NextLastErrMutKeepFirst(lastErr, err) == IF lastErr = "none" THEN err ELSE lastErr

\* `lastErr = err`
NextLastErr(lastErr, err) == err

\* variant: the delay stays what it is
NextDelayMutConstant(delay) == delay

\* `delay *= 2`
NextDelay(delay) == delay * 2

\* variant: time.Sleep(delay) in place of the select
SelectTimerFirstMutSleep == TRUE

\* the select of the backoff wait takes the timer case only while ctx.Done()
\* is not ready: a blocked select is woken by the first of the two events,
\* and a positive delay has not elapsed when the select is entered
SelectTimerFirst == ~ctxDone

RetryIdle ==
    /\ rAttempts = 0 /\ rInitialDelay = 0 /\ ri = 0 /\ rDelay = 0
    /\ rLastErr = "none" /\ rpc = "idle" /\ rResult = NoResult
    /\ ctxDone = FALSE /\ rOutcomes = <<>> /\ rWaits = <<>>
    /\ rCancelledInWait = FALSE

\* the call: `delay := initialDelay; var lastErr error; i := 0`
RetryInit ==
    /\ rAttempts \in 1..MaxAttempts
    /\ rInitialDelay \in InitialDelays
    /\ ri = 0
    /\ rDelay = rInitialDelay
    /\ rLastErr = "none"
    /\ rpc = "call"
    /\ rResult = NoResult
    /\ ctxDone = FALSE
    /\ rOutcomes = <<>>
    /\ rWaits = <<>>
    /\ rCancelledInWait = FALSE

\* `err := operation()`: on nil return nil, otherwise note the error and
\* enter the select
Invoke(err) ==
    /\ rpc = "call"
    /\ rOutcomes' = Append(rOutcomes, err)
    /\ IF err = "nil"
       THEN /\ rResult' = ReturnNil
            /\ rpc' = "done"
            /\ UNCHANGED rLastErr
       ELSE /\ rLastErr' = NextLastErr(rLastErr, err)
            /\ rpc' = "wait"
            /\ UNCHANGED rResult
    /\ UNCHANGED <<rAttempts, rInitialDelay, ri, rDelay, ctxDone, rWaits, rCancelledInWait>>

\* `case <-time.After(delay):` then `delay *= 2`, `i++` and the loop
\* condition; after the loop the aggregate error is returned
WaitElapsed ==
    /\ rpc = "wait"
    /\ SelectTimerFirst
    /\ rWaits' = Append(rWaits, rDelay)
    /\ rDelay' = NextDelay(rDelay)
    /\ ri' = ri + 1
    /\ IF LoopContinues(ri + 1, rAttempts)
       THEN rpc' = "call" /\ UNCHANGED rResult
       ELSE rpc' = "done" /\ rResult' = ReturnAggregate(rAttempts, rLastErr)
    /\ UNCHANGED <<rAttempts, rInitialDelay, rLastErr, ctxDone, rOutcomes, rCancelledInWait>>

\* `case <-ctx.Done(): return ctx.Err()`
WaitCancelled ==
    /\ rpc = "wait"
    /\ ctxDone
    /\ rResult' = ReturnCtxErr
    /\ rpc' = "done"
    /\ UNCHANGED <<rAttempts, rInitialDelay, ri, rDelay, rLastErr, ctxDone, rOutcomes,
                   rWaits, rCancelledInWait>>

\* the environment cancels the context, at any moment of the call
Cancel ==
    /\ ~ctxDone
    /\ rpc \in {"call", "wait"}
    /\ ctxDone' = TRUE
    /\ rCancelledInWait' = (rpc = "wait")
    /\ UNCHANGED <<rAttempts, rInitialDelay, ri, rDelay, rLastErr, rpc, rResult,
                   rOutcomes, rWaits>>

DetIdle ==
    /\ oldRecords = <<>> /\ newRecords = <<>> /\ changes = <<>> /\ dpc = "idle"


-----------------------------------------------------------------------------
(* internal/dns: generateDomainsToCheck                                    *)

sDomain      == <<120, 46, 121>>                            \* "x.y"
sDomainY     == <<121>>                                     \* "y"
sDmarcDot    == <<95, 100, 109, 97, 114, 99, 46>>           \* "_dmarc."
sDomainkeyDot == <<95, 100, 111, 109, 97, 105, 110, 107, 101, 121, 46>> \* "_domainkey."
sWwwDot      == <<119, 119, 119, 46>>                       \* "www."
sSelK        == <<107>>                                     \* "k"
sSelS        == <<115>>                                     \* "s"
sMail        == <<109, 46, 120, 46, 121>>                   \* "m.x.y"
sLabelM      == <<109>>                                     \* "m"
Dot          == 46

MaxSelectors == 2
MaxCustomDomains == 2

\* CUSTOM_DKIM_SELECTORS and CUSTOM_SUBDOMAINS as getValidEntries leaves
\* them: trimmed, non-empty, in the order given, repeats kept
Selectors == {sSelK, sSelS}
CustomNames == {sWwwDot \o sDomain, sMail, sSelK \o <<Dot>> \o sDomainkeyDot \o sDomain,
                sLabelM}

Configs ==
    [Domain : {sDomain, sDomainY},
     CustomDkimSelectors : SeqsUpTo(Selectors, MaxSelectors),
     CustomDomains : SeqsUpTo(CustomNames, MaxCustomDomains)]

\* the four names derived from the domain, one name per DKIM selector, then
\* config.CustomDomains as given
generateDomainsToCheck(config) ==
    LET domain == config.Domain
    IN  << domain,
           sDmarcDot \o domain,
           sDomainkeyDot \o domain,
           sWwwDot \o domain >>
        \o [k \in DOMAIN config.CustomDkimSelectors |->
                config.CustomDkimSelectors[k] \o <<Dot>> \o sDomainkeyDot \o domain]
        \o config.CustomDomains

EnumIdle ==
    /\ eConfig = [Domain |-> <<>>, CustomDkimSelectors |-> <<>>, CustomDomains |-> <<>>]
    /\ eDomains = <<>>
    /\ epc = "idle"


-----------------------------------------------------------------------------
(* internal/dns: FetchDNSRecords and queryDNS                              *)

retries == 3
initialDelay == 500

MaxFlips == 2

sCNAME == <<67, 78, 65, 77, 69>>   \* "CNAME"
sTypeA == <<65>>                   \* "A"

\* dns.TypeMX, dns.TypeTXT, dns.TypeCNAME, dns.TypeA, each written as
\* dns.TypeToString names it
recordTypes == <<sMX, sTXT, sCNAME, sTypeA>>

\* the configurations fetched with: the domain alone, and the domain with
\* its www name given once more as a custom name
FetchConfigs ==
    {[Domain |-> sDomain, CustomDkimSelectors |-> <<>>, CustomDomains |-> <<>>],
     [Domain |-> sDomain, CustomDkimSelectors |-> <<>>,
      CustomDomains |-> <<sWwwDot \o sDomain>>]}

\* dns.Fqdn
Fqdn(name) == IF name # <<>> /\ name[Len(name)] = Dot THEN name ELSE name \o <<Dot>>

\* a resource record of an answer section: header name, header TTL, and its
\* data as parseDNSRecord prints it
RR(name, ttl, data) == [name |-> name, ttl |-> ttl, data |-> data]

\* what the resolver answers when it answers: two MX records for the domain
\* itself, one TXT record for every name, nothing else
Zone(domainName, recordType) ==
    IF recordType = sMX /\ domainName = sDomain
    THEN <<RR(Fqdn(domainName), 300, sVal1), RR(Fqdn(domainName), 300, sVal2)>>
    ELSE IF recordType = sTXT
         THEN <<RR(Fqdn(domainName), 600, sVal1)>>
         ELSE <<>>

NilResp == [rcode |-> "none", answer |-> <<>>]
SuccessResp(answer) == [rcode |-> "success", answer |-> answer]
ServfailResp == [rcode |-> "servfail", answer |-> <<>>]

parseDNSRecord(rr, recordType) == DNSRecord(recordType, rr.name, rr.data, rr.ttl)

\* the two `continue` of the inner loop: queryDNS returned an error, or a
\* response whose Rcode is not success
Skips(result, resp) == result.kind # "nil" \/ resp.rcode # "success"

\* variant: a query that failed ends the fetch with an error
AfterPairMutAbort(skipped, last) ==
    IF skipped THEN [pc |-> "done", err |-> "failed"]
    ELSE IF last THEN [pc |-> "done", err |-> "nil"] ELSE [pc |-> "loop", err |-> "none"]

\* after a pair the loops go on, whether or not the pair was skipped; after
\* the last pair `return allRecords, nil`
AfterPair(skipped, last) ==
    IF last THEN [pc |-> "done", err |-> "nil"] ELSE [pc |-> "loop", err |-> "none"]

FetchIdle ==
    /\ fDomains = <<>> /\ fi = 0 /\ fj = 0 /\ fAllRecords = <<>> /\ fResp = NilResp
    /\ fErr = "none" /\ fpc = "off" /\ fLog = <<>> /\ resolverUp = TRUE /\ flips = 0

\* FetchDNSRecords up to the loops
FetchInit ==
    /\ fDomains \in {generateDomainsToCheck(config) : config \in FetchConfigs}
    /\ fi = 1
    /\ fj = 1
    /\ fAllRecords = <<>>
    /\ fResp = NilResp
    /\ fErr = "none"
    /\ fpc = "loop"
    /\ fLog = <<>>
    /\ resolverUp \in BOOLEAN
    /\ flips = 0

\* queryDNS(ctx, domainName, recordType, config) up to the call of
\* RetryWithExponentialBackoff(ctx, retries, initialDelay, operation)
QueryDNS ==
    /\ fpc = "loop"
    /\ fpc' = "query"
    /\ fResp' = NilResp
    /\ rAttempts' = retries
    /\ rInitialDelay' = initialDelay
    /\ ri' = 0
    /\ rDelay' = initialDelay
    /\ rLastErr' = "none"
    /\ rpc' = "call"
    /\ rResult' = NoResult
    /\ rOutcomes' = <<>>
    /\ rWaits' = <<>>
    /\ UNCHANGED <<ctxDone, rCancelledInWait>>
    /\ UNCHANGED <<fDomains, fi, fj, fAllRecords, fErr, fLog, resolverUp, flips>>

\* operation(): one Exchange; "e1" is the error of Exchange (resp is nil),
\* "e2" a response whose Rcode is not success
Exchange(err) ==
    /\ fpc = "query"
    /\ (err = "nil") = resolverUp
    /\ Invoke(err)
    /\ fResp' = CASE err = "nil" -> SuccessResp(Zone(fDomains[fi], recordTypes[fj]))
                  [] err = "e1" -> NilResp
                  [] err = "e2" -> ServfailResp
    /\ UNCHANGED <<fDomains, fi, fj, fAllRecords, fErr, fpc, fLog, resolverUp, flips>>

\* the backoff wait of the running queryDNS
Backoff ==
    /\ fpc = "query"
    /\ WaitElapsed
    /\ UNCHANGED fetchVars

\* queryDNS has returned: the pair is skipped or its answers are parsed and
\* appended, then the loops advance
QueryReturned ==
    /\ fpc = "query"
    /\ rpc = "done"
    /\ LET skipped == Skips(rResult, fResp)
           last == fi = Len(fDomains) /\ fj = Len(recordTypes)
           after == AfterPair(skipped, last)
       IN  /\ fAllRecords' =
                IF skipped THEN fAllRecords
                ELSE fAllRecords \o [k \in DOMAIN fResp.answer |->
                                        parseDNSRecord(fResp.answer[k], recordTypes[fj])]
           /\ fLog' = Append(fLog, [domain |-> fDomains[fi], type |-> recordTypes[fj],
                                    exchanges |-> Len(rOutcomes), result |-> rResult.kind])
           /\ fpc' = after.pc
           /\ fErr' = after.err
    /\ IF fj < Len(recordTypes)
       THEN fj' = fj + 1 /\ fi' = fi
       ELSE fj' = 1 /\ fi' = fi + 1
    /\ UNCHANGED <<fDomains, fResp, resolverUp, flips>>
    /\ UNCHANGED retryVars

\* the resolver starts or stops answering, between two exchanges
ResolverFlip ==
    /\ fpc = "query"
    /\ rpc = "call"
    /\ flips < MaxFlips
    /\ resolverUp' = ~resolverUp
    /\ flips' = flips + 1
    /\ UNCHANGED <<fDomains, fi, fj, fAllRecords, fResp, fErr, fpc, fLog>>
    /\ UNCHANGED retryVars

-----------------------------------------------------------------------------
(* encoding/json as SavePreviousState and LoadPreviousState use it: the     *)
(* tokens of the document are written and read byte by byte               *)

Quote == 34
Backslash == 92
LowerU == 117
Zero == 48

HexDigits == <<48, 49, 50, 51, 52, 53, 54, 55, 56, 57, 97, 98, 99, 100, 101, 102>>

\* variant: the quote and the backslash are written as they are
EscapeByteMutRaw(b) == <<b>>

\* json.Marshal of one byte of a string: \" and \\, \n \r \t, \u00xx for the
\* other control characters and for < > &, the byte itself otherwise
EscapeByte(b) ==
    IF b = Quote \/ b = Backslash THEN <<Backslash, b>>
    ELSE IF b = 10 THEN <<Backslash, 110>>
    ELSE IF b = 13 THEN <<Backslash, 114>>
    ELSE IF b = 9 THEN <<Backslash, 116>>
    ELSE IF b < 32 \/ b \in {60, 62, 38}
         THEN <<Backslash, LowerU, Zero, Zero, HexDigits[(b \div 16) + 1], HexDigits[(b % 16) + 1]>>
         ELSE <<b>>

EncodeString(s) == <<Quote>> \o ConcatAll([k \in DOMAIN s |-> EscapeByte(s[k])]) \o <<Quote>>

\* strconv: the decimal digits of an unsigned number
RECURSIVE EncodeUint(_)
EncodeUint(n) ==
    IF n < 10 THEN <<Zero + n>> ELSE EncodeUint(n \div 10) \o <<Zero + (n % 10)>>

HexValue(c) ==
    IF c \in 48..57 THEN c - 48
    ELSE IF c \in 97..102 THEN c - 87
    ELSE IF c \in 65..70 THEN c - 55
    ELSE -1

\* the byte a one-letter escape stands for, -1 for no escape
SimpleEscape(c) ==
    CASE c = Quote -> Quote
      [] c = Backslash -> Backslash
      [] c = 47 -> 47
      [] c = 98 -> 8
      [] c = 102 -> 12
      [] c = 110 -> 10
      [] c = 114 -> 13
      [] c = 116 -> 9
      [] OTHER -> -1

\* the UTF-8 bytes of a code point below 65536
Utf8(v) ==
    IF v < 128 THEN <<v>>
    ELSE IF v < 2048 THEN <<192 + (v \div 64), 128 + (v % 64)>>
    ELSE <<224 + (v \div 4096), 128 + ((v \div 64) % 64), 128 + (v % 64)>>

DecodeFailed == [ok |-> FALSE, val |-> <<>>]

\* the body of a string token from position k on; the closing quote is the
\* last byte of the token
RECURSIVE UnquoteFrom(_, _)
UnquoteFrom(t, k) ==
    IF k > Len(t) THEN DecodeFailed
    ELSE IF t[k] = Quote THEN [ok |-> k = Len(t), val |-> <<>>]
    ELSE IF t[k] < 32 THEN DecodeFailed
    ELSE IF t[k] = Backslash
         THEN IF k + 1 > Len(t) THEN DecodeFailed
              ELSE IF t[k + 1] = LowerU
                   THEN IF k + 5 > Len(t)
                           \/ \E d \in 2..5 : HexValue(t[k + d]) < 0
                        THEN DecodeFailed
                        ELSE LET v == 4096 * HexValue(t[k + 2]) + 256 * HexValue(t[k + 3])
                                        + 16 * HexValue(t[k + 4]) + HexValue(t[k + 5])
                                 rest == UnquoteFrom(t, k + 6)
                             IN  [ok |-> rest.ok, val |-> Utf8(v) \o rest.val]
                   ELSE IF SimpleEscape(t[k + 1]) < 0 THEN DecodeFailed
                        ELSE LET rest == UnquoteFrom(t, k + 2)
                             IN  [ok |-> rest.ok, val |-> <<SimpleEscape(t[k + 1])>> \o rest.val]
         ELSE LET rest == UnquoteFrom(t, k + 1)
              IN  [ok |-> rest.ok, val |-> <<t[k]>> \o rest.val]

DecodeString(t) ==
    IF Len(t) < 2 \/ t[1] # Quote THEN DecodeFailed ELSE UnquoteFrom(t, 2)

RECURSIVE DigitsValue(_)
DigitsValue(t) ==
    IF t = <<>> THEN 0 ELSE 10 * DigitsValue(SubSeq(t, 1, Len(t) - 1)) + (t[Len(t)] - Zero)

\* "4294967295"
MaxUint32Digits == <<52, 50, 57, 52, 57, 54, 55, 50, 57, 53>>

\* a number token read into a uint32 field
DecodeUint(t) ==
    IF t = <<>> \/ (\E k \in DOMAIN t : t[k] \notin 48..57) \/ (Len(t) > 1 /\ t[1] = Zero)
       \/ Len(t) > 10 \/ (Len(t) = 10 /\ ~StrLeq(t, MaxUint32Digits))
    THEN [ok |-> FALSE, val |-> 0]
    ELSE [ok |-> TRUE, val |-> DigitsValue(t)]

\* one DNSRecord as a JSON object: the values of "type", "name", "value"
\* and "ttl"
EncodeRecord(r) ==
    [type |-> EncodeString(r.type), name |-> EncodeString(r.name),
     value |-> EncodeString(r.value), ttl |-> EncodeUint(r.ttl)]

\* json.MarshalIndent(state, "", "  "): the value of "records" is null for
\* a nil slice, which is what a fetch without records returns
MarshalIndent(records) ==
    IF records = <<>>
    THEN [null |-> TRUE, items |-> <<>>]
    ELSE [null |-> FALSE, items |-> [k \in DOMAIN records |-> EncodeRecord(records[k])]]

\* json.Unmarshal(data, &state)
Unmarshal(data) ==
    LET ok == \A k \in DOMAIN data.items :
                    /\ DecodeString(data.items[k].type).ok
                    /\ DecodeString(data.items[k].name).ok
                    /\ DecodeString(data.items[k].value).ok
                    /\ DecodeUint(data.items[k].ttl).ok
    IN  IF data.null THEN [ok |-> TRUE, records |-> <<>>]
        ELSE IF ~ok THEN [ok |-> FALSE, records |-> <<>>]
        ELSE [ok |-> TRUE,
              records |-> [k \in DOMAIN data.items |->
                            DNSRecord(DecodeString(data.items[k].type).val,
                                      DecodeString(data.items[k].name).val,
                                      DecodeString(data.items[k].value).val,
                                      DecodeUint(data.items[k].ttl).val)]]

NoData == [null |-> TRUE, items |-> <<>>]

-----------------------------------------------------------------------------
(* internal/storage: SavePreviousState and LoadPreviousState               *)

\* data/dns_state.json: missing, not parseable, or a PreviousState
FileAbsent == [kind |-> "absent", data |-> NoData]
FileCorrupt == [kind |-> "corrupt", data |-> NoData]
FileOf(records) == [kind |-> "valid", data |-> MarshalIndent(records)]

\* variant: nothing is written
WrittenFileMutKeep(file, records, outcome) == file

\* SavePreviousState: on success the file holds the marshalled state; a
\* failed os.WriteFile leaves the file as it was or cut short
WrittenFile(file, records, outcome) ==
    CASE outcome = "ok" -> FileOf(records)
      [] outcome = "failed" -> file
      [] outcome = "failed_partial" -> FileCorrupt

\* LoadPreviousState: an error when the path or the read fails, (empty, nil)
\* when the file does not exist, an error when it does not parse, otherwise
\* (state, nil)
LoadResult(file, ioOk) ==
    IF ~ioOk THEN [records |-> <<>>, outcome |-> "error"]
    ELSE CASE file.kind = "absent" -> [records |-> <<>>, outcome |-> "not_found"]
           [] file.kind = "corrupt" -> [records |-> <<>>, outcome |-> "error"]
           [] file.kind = "valid" ->
                IF Unmarshal(file.data).ok
                THEN [records |-> Unmarshal(file.data).records, outcome |-> "loaded"]
                ELSE [records |-> <<>>, outcome |-> "error"]

MaxStored == 1

\* strings a record may hold: what parseDNSRecord builds is printable ASCII,
\* the quote, the backslash and < among it; a state file may add a tab
StoreStrings ==
    {<<>>, <<Quote>>, <<Backslash>>, <<60>>, <<Backslash, LowerU>>, <<97, Quote>>, <<9>>, sVal2}
StoreTTLs == {0, 300, 2147483647}
StoreRecords ==
    {DNSRecord(sTXT, n, v, ttl) :
        n \in {sNameA, <<Backslash, Quote, Dot>>}, v \in StoreStrings, ttl \in StoreTTLs}
StoreSnapshots == SeqsUpTo(StoreRecords, MaxStored)

NotLoaded == [records |-> <<>>, outcome |-> "none", io |-> FALSE]

StoreIdle ==
    /\ sState = <<>> /\ sFile = FileAbsent /\ sLoaded = NotLoaded /\ spc = "off"

\* a state to save, and the file as an earlier run left it
StoreInit ==
    /\ sState \in StoreSnapshots
    /\ sFile \in {FileAbsent, FileCorrupt, FileOf(<<DNSRecord(sMX, sNameA, sVal1, 300)>>)}
    /\ sLoaded = NotLoaded
    /\ spc = "save"

\* SavePreviousState(state)
Save(outcome) ==
    /\ spc = "save"
    /\ sFile' = WrittenFile(sFile, sState, outcome)
    /\ spc' = IF outcome = "ok" THEN "saved" ELSE "save_failed"
    /\ UNCHANGED <<sState, sLoaded>>

\* LoadPreviousState() after the save
Load(ioOk) ==
    /\ spc \in {"saved", "save_failed"}
    /\ sLoaded' = [records |-> LoadResult(sFile, ioOk).records,
                   outcome |-> LoadResult(sFile, ioOk).outcome, io |-> ioOk]
    /\ spc' = IF spc = "saved" THEN "loaded" ELSE "loaded_after_failure"
    /\ UNCHANGED <<sState, sFile>>

-----------------------------------------------------------------------------
(* notification/providers: SendNotification and sanitizeString             *)

maxRetries == 5

maxTitleLength == 250
maxMessageLength == 1024

sEllipsis == <<46, 46, 46>>   \* "..."

\* variant: the ellipsis is added to a prefix of maxLength bytes
sanitizeStringMutLong(s, maxLength) ==
    IF Len(s) > maxLength THEN SubSeq(s, 1, maxLength) \o sEllipsis ELSE s

\* `if len(s) > maxLength { return s[:maxLength-3] + "..." }; return s`
sanitizeString(s, maxLength) ==
    IF Len(s) > maxLength THEN SubSeq(s, 1, maxLength - 3) \o sEllipsis ELSE s

\* a string of n bytes, no two neighbours equal
TextOfLen(n) == [k \in 1..n |-> 97 + (k % 7)]

TitleLens == {0, 3, 249, 250, 251, 252, 300}
MessageLens == {0, 1023, 1024, 1025, 1100}

NotifyIdle ==
    /\ nArgs = [title |-> <<>>, message |-> <<>>]
    /\ nTitle = <<>> /\ nMessage = <<>> /\ nHanded = <<>>

\* SendNotification(ctx, title, message) up to the call of
\* RetryWithExponentialBackoff(ctx, maxRetries, initialDelay, operation)
NotifyInit ==
    /\ nArgs \in [title : {TextOfLen(n) : n \in TitleLens},
                  message : {TextOfLen(n) : n \in MessageLens}]
    /\ nTitle = nArgs.title
    /\ nMessage = nArgs.message
    /\ nHanded = <<>>
    /\ rAttempts = maxRetries
    /\ rInitialDelay = initialDelay
    /\ ri = 0
    /\ rDelay = rInitialDelay
    /\ rLastErr = "none"
    /\ rpc = "call"
    /\ rResult = NoResult
    /\ ctxDone = FALSE
    /\ rOutcomes = <<>>
    /\ rWaits = <<>>
    /\ rCancelledInWait = FALSE

\* operation(): title and message are sanitized in place and handed to
\* s.notifier.Send
Send(err) ==
    /\ Invoke(err)
    /\ nTitle' = sanitizeString(nTitle, maxTitleLength)
    /\ nMessage' = sanitizeString(nMessage, maxMessageLength)
    /\ nHanded' = Append(nHanded, [title |-> nTitle', message |-> nMessage'])
    /\ UNCHANGED nArgs

-----------------------------------------------------------------------------
(* cmd: main and performCheck                                              *)

MaxFetched == 1
MaxCycles == 3

\* the records a fetch may return: one key, two values, the first of them
\* under two TTLs
MonRecords == {DNSRecord(sMX, sNameA, sVal1, 300), DNSRecord(sMX, sNameA, sVal1, 600),
               DNSRecord(sMX, sNameA, sVal2, 300)}
MonSnapshots == SeqsUpTo(MonRecords, MaxFetched)


MonIdle ==
    /\ mpc = "off" /\ prevState = <<>> /\ currentRecords = <<>> /\ mChanges = <<>>
    /\ stateFile = FileAbsent /\ notifyOnErrors = FALSE
    /\ stopPending = FALSE /\ tickPending = FALSE /\ cycleLog = <<>>
    /\ loadOutcome = "none"
    /\ cycles = 0

\* main up to `signal.Notify(stop, ...)`
MonInit ==
    /\ mpc = "load"
    /\ prevState = <<>>
    /\ currentRecords = <<>>
    /\ mChanges = <<>>
    /\ stateFile \in {FileAbsent, FileCorrupt} \cup {FileOf(s) : s \in MonSnapshots}
    /\ notifyOnErrors \in BOOLEAN
    /\ stopPending = FALSE
    /\ tickPending = FALSE
    /\ cycleLog = <<>>
    /\ loadOutcome = "none"
    /\ cycles = 0

\* variant: the first check waits for the first tick
AfterLoadMutDeferred(outcome, notify) == "idle"

\* variant: a failed load is always notified
AfterLoadMutAlwaysNotify(outcome, notify) ==
    IF outcome = "error" THEN "load_notify" ELSE "first_check"

\* main after LoadPreviousState: `if err != nil { ... if config.NotifyOnErrors
\* { sendErrorNotification } }`, then the ticker and the first performCheck
AfterLoad(outcome, notify) ==
    IF outcome = "error" /\ notify THEN "load_notify" ELSE "first_check"

\* variant: a signal or a tick is served wherever main stands
AtSelectMutAnywhere(pc) == pc \notin {"load", "load_notify", "first_check", "exited"}

\* main stands in the select of the loop only between two performCheck
AtSelect(pc) == pc = "idle"

\* variant: the branch is taken for every list
AfterDetectMutAlways(chs) == "notify"

\* `if len(changes) > 0 { ... } else { log }`
AfterDetect(chs) == IF Len(chs) > 0 THEN "notify" ELSE "idle"

\* variant: performCheck returns when the notification failed
AfterNotificationMutReturn(sent) == IF sent THEN "save" ELSE "idle"

\* sendChangeDetectedNotification returns nothing: SavePreviousState follows
AfterNotification(sent) == "save"

\* variant: performCheck returns when the save failed
AfterSaveMutReturn(ok, notify) ==
    IF ok THEN "update" ELSE IF notify THEN "save_notify" ELSE "idle"

\* `if err != nil { log; if config.NotifyOnErrors { sendErrorNotification } }`
AfterSave(ok, notify) == IF ~ok /\ notify THEN "save_notify" ELSE "update"

\* variant: the in-memory state is left as it was
NextPrevStateMutKeep(prev, current, saved) == prev

\* variant: the in-memory state follows the file
NextPrevStateMutIfSaved(prev, current, saved) == IF saved THEN current ELSE prev

\* `*prevState = common.PreviousState{Records: currentRecords}`
NextPrevState(prev, current, saved) == current

\* the number of check cycles started, counted up to MaxCycles
CountCycle(n) == IF n < MaxCycles THEN n + 1 ELSE n

\* `prevState, err := storage.LoadPreviousState(...)` and `if err != nil`
LoadPreviousState(ioOk) ==
    /\ mpc = "load"
    /\ LET r == LoadResult(stateFile, ioOk)
       IN  /\ prevState' = r.records
           /\ loadOutcome' = r.outcome
           /\ mpc' = AfterLoad(r.outcome, notifyOnErrors)
    /\ UNCHANGED <<currentRecords, mChanges, stateFile, notifyOnErrors, stopPending,
                   tickPending, cycleLog, cycles>>

\* sendErrorNotification(ctx, notifier, "Failed to load previous state", err)
LoadErrorNotification(sent) ==
    /\ mpc = "load_notify"
    /\ cycleLog' = Append(cycleLog, IF sent THEN "error_sent" ELSE "error_failed")
    /\ mpc' = "first_check"
    /\ UNCHANGED <<prevState, currentRecords, mChanges, stateFile, notifyOnErrors,
                   stopPending, tickPending, loadOutcome, cycles>>

\* `performCheck(...)` before the loop
FirstCheck ==
    /\ mpc = "first_check"
    /\ mpc' = "fetch"
    /\ cycleLog' = <<>>
    /\ cycles' = CountCycle(cycles)
    /\ UNCHANGED <<prevState, currentRecords, mChanges, stateFile, notifyOnErrors,
                   stopPending, tickPending, loadOutcome>>

\* `case <-ticker.C:`
SelectTick ==
    /\ AtSelect(mpc)
    /\ tickPending
    /\ tickPending' = FALSE
    /\ mpc' = "fetch"
    /\ cycleLog' = <<>>
    /\ cycles' = CountCycle(cycles)
    /\ UNCHANGED <<prevState, currentRecords, mChanges, stateFile, notifyOnErrors,
                   stopPending, loadOutcome>>

\* `case <-stop: return`
SelectStop ==
    /\ AtSelect(mpc)
    /\ stopPending
    /\ mpc' = "exited"
    /\ UNCHANGED <<prevState, currentRecords, mChanges, stateFile, notifyOnErrors,
                   stopPending, tickPending, cycleLog, loadOutcome, cycles>>

\* performCheck: FetchDNSRecords returns a snapshot and a nil error, then
\* DetectChanges(prevState.Records, currentRecords) and `len(changes) > 0`
FetchAndDetect(fetched) ==
    /\ mpc = "fetch"
    /\ currentRecords' = fetched
    /\ \E no \in Orders(DOMAIN buildRecordMap(fetched)),
          oo \in Orders(DOMAIN buildRecordMap(prevState)) :
            mChanges' = DetectChangesOrd(prevState, fetched, no, oo)
    /\ mpc' = AfterDetect(mChanges')
    /\ UNCHANGED <<prevState, stateFile, notifyOnErrors, stopPending, tickPending, cycleLog,
                   loadOutcome, cycles>>

\* sendChangeDetectedNotification: the error of SendNotification is logged
SendChangeNotification(sent) ==
    /\ mpc = "notify"
    /\ cycleLog' = Append(cycleLog, IF sent THEN "change_sent" ELSE "change_failed")
    /\ mpc' = AfterNotification(sent)
    /\ UNCHANGED <<prevState, currentRecords, mChanges, stateFile, notifyOnErrors,
                   stopPending, tickPending, loadOutcome, cycles>>

\* SavePreviousState(PreviousState{Records: currentRecords}) and `if err != nil`
SavePreviousState(outcome) ==
    /\ mpc = "save"
    /\ stateFile' = WrittenFile(stateFile, currentRecords, outcome)
    /\ cycleLog' = Append(cycleLog, IF outcome = "ok" THEN "saved" ELSE "save_failed")
    /\ mpc' = AfterSave(outcome = "ok", notifyOnErrors)
    /\ UNCHANGED <<prevState, currentRecords, mChanges, notifyOnErrors, stopPending,
                   tickPending, loadOutcome, cycles>>

\* sendErrorNotification(ctx, notifier, "Failed to save updated state", err)
SaveErrorNotification(sent) ==
    /\ mpc = "save_notify"
    /\ cycleLog' = Append(cycleLog, IF sent THEN "error_sent" ELSE "error_failed")
    /\ mpc' = "update"
    /\ UNCHANGED <<prevState, currentRecords, mChanges, stateFile, notifyOnErrors,
                   stopPending, tickPending, loadOutcome, cycles>>

\* `*prevState = common.PreviousState{Records: currentRecords}` and return
UpdatePrevState ==
    /\ mpc = "update"
    /\ prevState' = NextPrevState(prevState, currentRecords, "saved" \in Range(cycleLog))
    /\ mpc' = "idle"
    /\ UNCHANGED <<currentRecords, mChanges, stateFile, notifyOnErrors, stopPending,
                   tickPending, cycleLog, loadOutcome, cycles>>

\* the ticker sends on its channel of capacity 1 (a tick is dropped when one
\* is pending); the ticker exists once the state is loaded
Tick ==
    /\ mpc \notin {"load", "load_notify", "exited"}
    /\ ~tickPending
    /\ tickPending' = TRUE
    /\ UNCHANGED <<mpc, prevState, currentRecords, mChanges, stateFile, notifyOnErrors,
                   stopPending, cycleLog, loadOutcome, cycles>>

\* SIGINT or SIGTERM is delivered to the stop channel of capacity 1
Signal ==
    /\ mpc # "exited"
    /\ ~stopPending
    /\ stopPending' = TRUE
    /\ UNCHANGED <<mpc, prevState, currentRecords, mChanges, stateFile, notifyOnErrors,
                   tickPending, cycleLog, loadOutcome, cycles>>

MonNext ==
    \/ \E ioOk \in BOOLEAN : LoadPreviousState(ioOk) /\ UNCHANGED <<detVars, retryVars, enumVars, fetchVars, storeVars, notifyVars>>
    \/ \E sent \in BOOLEAN : LoadErrorNotification(sent) /\ UNCHANGED <<detVars, retryVars, enumVars, fetchVars, storeVars, notifyVars>>
    \/ FirstCheck /\ UNCHANGED <<detVars, retryVars, enumVars, fetchVars, storeVars, notifyVars>>
    \/ SelectTick /\ UNCHANGED <<detVars, retryVars, enumVars, fetchVars, storeVars, notifyVars>>
    \/ SelectStop /\ UNCHANGED <<detVars, retryVars, enumVars, fetchVars, storeVars, notifyVars>>
    \/ \E fetched \in MonSnapshots : FetchAndDetect(fetched) /\ UNCHANGED <<detVars, retryVars, enumVars, fetchVars, storeVars, notifyVars>>
    \/ \E sent \in BOOLEAN : SendChangeNotification(sent) /\ UNCHANGED <<detVars, retryVars, enumVars, fetchVars, storeVars, notifyVars>>
    \/ \E outcome \in {"ok", "failed", "failed_partial"} :
            SavePreviousState(outcome) /\ UNCHANGED <<detVars, retryVars, enumVars, fetchVars, storeVars, notifyVars>>
    \/ \E sent \in BOOLEAN : SaveErrorNotification(sent) /\ UNCHANGED <<detVars, retryVars, enumVars, fetchVars, storeVars, notifyVars>>
    \/ UpdatePrevState /\ UNCHANGED <<detVars, retryVars, enumVars, fetchVars, storeVars, notifyVars>>
    \/ Tick /\ UNCHANGED <<detVars, retryVars, enumVars, fetchVars, storeVars, notifyVars>>
    \/ Signal /\ UNCHANGED <<detVars, retryVars, enumVars, fetchVars, storeVars, notifyVars>>

MonSpecInit ==
    /\ MonInit
    /\ DetIdle
    /\ RetryIdle
    /\ EnumIdle
    /\ StoreIdle
    /\ NotifyIdle
    /\ FetchIdle

SpecMonitor == MonSpecInit /\ [][MonNext]_vars

-----------------------------------------------------------------------------
(* One call of RetryWithExponentialBackoff as a state machine              *)

RetryNext ==
    \/ \E err \in OpResults : Invoke(err) /\ UNCHANGED <<detVars, monVars, enumVars, fetchVars, storeVars, notifyVars>>
    \/ WaitElapsed /\ UNCHANGED <<detVars, monVars, enumVars, fetchVars, storeVars, notifyVars>>
    \/ WaitCancelled /\ UNCHANGED <<detVars, monVars, enumVars, fetchVars, storeVars, notifyVars>>
    \/ Cancel /\ UNCHANGED <<detVars, monVars, enumVars, fetchVars, storeVars, notifyVars>>

RetrySpecInit ==
    /\ RetryInit
    /\ DetIdle
    /\ MonIdle
    /\ EnumIdle
    /\ StoreIdle
    /\ NotifyIdle
    /\ FetchIdle

SpecRetry == RetrySpecInit /\ [][RetryNext]_vars

-----------------------------------------------------------------------------
(* The detector as a state machine: two snapshots go in, a list comes out  *)

DetInit ==
    /\ oldRecords \in SeqsUpTo(DetRecords, MaxRecords)
    /\ newRecords \in SeqsUpTo(DetRecords, MaxRecords)
    /\ changes = <<>>
    /\ dpc = "ready"
    /\ RetryIdle
    /\ MonIdle
    /\ EnumIdle
    /\ StoreIdle
    /\ NotifyIdle
    /\ FetchIdle

Detect ==
    /\ dpc = "ready"
    /\ \E no \in Orders(DOMAIN buildRecordMap(newRecords)),
          oo \in Orders(DOMAIN buildRecordMap(oldRecords)) :
            changes' = DetectChangesOrd(oldRecords, newRecords, no, oo)
    /\ dpc' = "done"
    /\ UNCHANGED <<oldRecords, newRecords>>

DetNext == Detect /\ UNCHANGED <<retryVars, monVars, enumVars, fetchVars, storeVars, notifyVars>>

SpecDetect == DetInit /\ [][DetNext]_vars

-----------------------------------------------------------------------------
(* One call of generateDomainsToCheck as a state machine                   *)

EnumInit ==
    /\ eConfig \in Configs
    /\ eDomains = <<>>
    /\ epc = "ready"
    /\ DetIdle
    /\ RetryIdle
    /\ MonIdle
    /\ FetchIdle
    /\ StoreIdle
    /\ NotifyIdle

Generate ==
    /\ epc = "ready"
    /\ eDomains' = generateDomainsToCheck(eConfig)
    /\ epc' = "done"
    /\ UNCHANGED eConfig

EnumNext == Generate /\ UNCHANGED <<detVars, retryVars, monVars, fetchVars, storeVars, notifyVars>>

SpecEnum == EnumInit /\ [][EnumNext]_vars

-----------------------------------------------------------------------------
(* One call of FetchDNSRecords as a state machine                          *)

FetchNext ==
    \/ QueryDNS /\ UNCHANGED <<detVars, monVars, enumVars, storeVars, notifyVars>>
    \/ \E err \in OpResults : Exchange(err) /\ UNCHANGED <<detVars, monVars, enumVars, storeVars, notifyVars>>
    \/ Backoff /\ UNCHANGED <<detVars, monVars, enumVars, storeVars, notifyVars>>
    \/ QueryReturned /\ UNCHANGED <<detVars, monVars, enumVars, storeVars, notifyVars>>
    \/ ResolverFlip /\ UNCHANGED <<detVars, monVars, enumVars, storeVars, notifyVars>>

FetchSpecInit ==
    /\ FetchInit
    /\ DetIdle
    /\ RetryIdle
    /\ MonIdle
    /\ EnumIdle
    /\ StoreIdle
    /\ NotifyIdle

SpecFetch == FetchSpecInit /\ [][FetchNext]_vars



-----------------------------------------------------------------------------
(* A retried operation as main runs it: a DNS query of the fetch or the     *)
(* SendNotification of a change alert, with the context main passes down   *)

\* `ctx := context.Background()` is the context main hands to every call,
\* and signal.Notify delivers the signal to the stop channel only: nothing
\* cancels the context when a signal arrives
MainCtxCancelOnSignal == FALSE

\* main stands in the first performCheck, at the call of
\* RetryWithExponentialBackoff made by queryDNS or by SendNotification
CallInit ==
    /\ \/ /\ mpc = "fetch"
          /\ rAttempts = retries
          /\ currentRecords = <<>>
          /\ mChanges = <<>>
       \/ /\ mpc = "notify"
          /\ rAttempts = maxRetries
          /\ currentRecords \in MonSnapshots \ {<<>>}
          /\ mChanges = DetectChanges(<<>>, currentRecords)
    /\ rInitialDelay = initialDelay
    /\ ri = 0
    /\ rDelay = rInitialDelay
    /\ rLastErr = "none"
    /\ rpc = "call"
    /\ rResult = NoResult
    /\ ctxDone = FALSE
    /\ rOutcomes = <<>>
    /\ rWaits = <<>>
    /\ rCancelledInWait = FALSE
    /\ prevState = <<>>
    /\ stateFile = FileAbsent
    /\ notifyOnErrors \in BOOLEAN
    /\ stopPending = FALSE
    /\ tickPending = FALSE
    /\ cycleLog = <<>>
    /\ loadOutcome = "not_found"
    /\ cycles = 1
    /\ DetIdle
    /\ EnumIdle
    /\ StoreIdle
    /\ NotifyIdle
    /\ FetchIdle

\* SIGINT or SIGTERM arrives while the call is running
SignalDuringCall ==
    /\ rpc \in {"call", "wait"}
    /\ ~stopPending
    /\ stopPending' = TRUE
    /\ ctxDone' = (ctxDone \/ MainCtxCancelOnSignal)
    /\ rCancelledInWait' = (rCancelledInWait \/ (ctxDone' /\ ~ctxDone /\ rpc = "wait"))
    /\ UNCHANGED <<rAttempts, rInitialDelay, ri, rDelay, rLastErr, rpc, rResult,
                   rOutcomes, rWaits>>
    /\ UNCHANGED <<mpc, prevState, currentRecords, mChanges, stateFile, notifyOnErrors,
                   tickPending, cycleLog, loadOutcome, cycles>>

\* the ctx.Done() case of the select has no step here: the context of main
\* is never done
CallNext ==
    \/ \E err \in OpResults : Invoke(err) /\ UNCHANGED <<detVars, monVars, enumVars, fetchVars, storeVars, notifyVars>>
    \/ WaitElapsed /\ UNCHANGED <<detVars, monVars, enumVars, fetchVars, storeVars, notifyVars>>
    \/ SignalDuringCall /\ UNCHANGED <<detVars, enumVars, fetchVars, storeVars, notifyVars>>

SpecCall == CallInit /\ [][CallNext]_vars

-----------------------------------------------------------------------------
(* A save followed by a load, as a state machine                           *)

StoreNext ==
    \/ \E outcome \in {"ok", "failed", "failed_partial"} :
            Save(outcome) /\ UNCHANGED <<detVars, retryVars, monVars, enumVars, fetchVars, notifyVars>>
    \/ \E ioOk \in BOOLEAN :
            Load(ioOk) /\ UNCHANGED <<detVars, retryVars, monVars, enumVars, fetchVars, notifyVars>>

StoreSpecInit ==
    /\ StoreInit
    /\ DetIdle
    /\ RetryIdle
    /\ MonIdle
    /\ EnumIdle
    /\ FetchIdle
    /\ NotifyIdle

SpecStore == StoreSpecInit /\ [][StoreNext]_vars

-----------------------------------------------------------------------------
(* One call of SendNotification as a state machine                         *)

NotifyNext ==
    \/ \E err \in OpResults :
            Send(err) /\ UNCHANGED <<detVars, monVars, enumVars, fetchVars, storeVars>>
    \/ WaitElapsed /\ UNCHANGED <<detVars, monVars, enumVars, fetchVars, storeVars, notifyVars>>

NotifySpecInit ==
    /\ NotifyInit
    /\ DetIdle
    /\ MonIdle
    /\ EnumIdle
    /\ FetchIdle
    /\ StoreIdle

SpecNotify == NotifySpecInit /\ [][NotifyNext]_vars

-----------------------------------------------------------------------------
(* Reading a change entry back: "<TAG>: <type> <name> -> <value>"          *)

Tags == {sNEW, sADDED, sREMOVED, sDELETED}

IndexFrom(s, c, from) == Min({i \in from..Len(s) : s[i] = c} \cup {Len(s) + 1})

ParseChange(e) ==
    LET c   == IndexFrom(e, Colon, 1)
        sp1 == IndexFrom(e, Space, c + 2)
        sp2 == IndexFrom(e, Space, sp1 + 1)
    IN  [tag   |-> SubSeq(e, 1, c - 1),
         type  |-> SubSeq(e, c + 2, sp1 - 1),
         name  |-> SubSeq(e, sp1 + 1, sp2 - 1),
         value |-> SubSeq(e, sp2 + 4, Len(e))]

Entry(tag, k, v) == [tag |-> tag, type |-> k[1], name |-> k[2], value |-> v]

Parsed(cs) == [i \in DOMAIN cs |-> ParseChange(cs[i])]

\* the grouping key (kind, owner_name) and the groups of a snapshot
Keys(s) == {<<r.type, r.name>> : r \in Range(s)}
Group(s, k) == LET InK(r) == <<r.type, r.name>> = k IN SelectSeq(s, InK)
GroupValues(s, k) == {r.value : r \in Range(Group(s, k))}
Triples(s) == {<<r.type, r.name, r.value>> : r \in Range(s)}

InvertTag(t) ==
    CASE t = sADDED -> sREMOVED
      [] t = sREMOVED -> sADDED
      [] t = sNEW -> sDELETED
      [] t = sDELETED -> sNEW
      [] OTHER -> t

\* the entry with its tag exchanged, the rest of the text kept
InvertEntry(e) ==
    LET c == IndexFrom(e, Colon, 1)
    IN  InvertTag(SubSeq(e, 1, c - 1)) \o SubSeq(e, c, Len(e))

IsSorted(cs) == \A i, j \in DOMAIN cs : i < j => StrLeq(cs[i], cs[j])

SwapFirstTwo(s) == IF Len(s) < 2 THEN s ELSE <<s[2], s[1]>> \o SubSeq(s, 3, Len(s))
Rotate(s) == IF s = <<>> THEN s ELSE Tail(s) \o <<Head(s)>>

-----------------------------------------------------------------------------
(* Claims about DetectChanges, checked under SpecDetect                    *)

\* C1: for a key in both snapshots, ADDED entries are exactly the values in
\* the new group and not the old, REMOVED entries exactly the values in the
\* old group and not the new, values in both give no entry; a single changed
\* value gives one REMOVED and one ADDED entry; every tag is one of the four.
C1_ValueDifference ==
    dpc = "done" =>
        LET P == Parsed(changes) IN
        /\ \A i \in DOMAIN P : P[i].tag \in Tags
        /\ \A k \in Keys(oldRecords) \cap Keys(newRecords) : \A v \in Values :
            LET ov == GroupValues(oldRecords, k)
                nv == GroupValues(newRecords, k)
            IN  /\ Entry(sADDED, k, v) \in Range(P) <=> v \in nv \ ov
                /\ Entry(sREMOVED, k, v) \in Range(P) <=> v \in ov \ nv
                /\ v \in ov \cap nv => \A t \in Tags : Entry(t, k, v) \notin Range(P)
        /\ \A k \in Keys(oldRecords) \cap Keys(newRecords) :
            LET og == Group(oldRecords, k)
                ng == Group(newRecords, k)
                OfKey(p) == <<p.type, p.name>> = k
            IN  (Len(og) = 1 /\ Len(ng) = 1 /\ og[1].value # ng[1].value) =>
                    /\ Len(SelectSeq(P, OfKey)) = 2
                    /\ Count(P, Entry(sADDED, k, ng[1].value)) = 1
                    /\ Count(P, Entry(sREMOVED, k, og[1].value)) = 1

C1_Witness ==
    /\ dpc = "done"
    /\ \E k \in Keys(oldRecords) \cap Keys(newRecords) :
        /\ Len(Group(oldRecords, k)) = 1 /\ Len(Group(newRecords, k)) = 1
        /\ GroupValues(oldRecords, k) # GroupValues(newRecords, k)
    /\ Len(changes) = 2

\* C2: a key only in the new snapshot gives one NEW entry per record of its
\* group, a key only in the old snapshot one DELETED entry per record; no NEW
\* entry for a key of the old snapshot, no DELETED entry for a key of the new.
C2_NewAndDeleted ==
    dpc = "done" =>
        LET P == Parsed(changes) IN
        /\ \A k \in Keys(newRecords) \ Keys(oldRecords) : \A v \in Values :
            Count(P, Entry(sNEW, k, v))
                = Cardinality({i \in DOMAIN newRecords :
                                  <<newRecords[i].type, newRecords[i].name>> = k
                                  /\ newRecords[i].value = v})
        /\ \A k \in Keys(oldRecords) \ Keys(newRecords) : \A v \in Values :
            Count(P, Entry(sDELETED, k, v))
                = Cardinality({i \in DOMAIN oldRecords :
                                  <<oldRecords[i].type, oldRecords[i].name>> = k
                                  /\ oldRecords[i].value = v})
        /\ \A i \in DOMAIN P :
            /\ P[i].tag = sNEW => <<P[i].type, P[i].name>> \notin Keys(oldRecords)
            /\ P[i].tag = sDELETED => <<P[i].type, P[i].name>> \notin Keys(newRecords)

C2_Witness ==
    /\ dpc = "done"
    /\ Keys(newRecords) \ Keys(oldRecords) # {}
    /\ Keys(oldRecords) \ Keys(newRecords) # {}
    /\ Keys(oldRecords) \cap Keys(newRecords) # {}
    /\ \E i, j \in DOMAIN changes :
        ParseChange(changes[i]).tag = sNEW /\ ParseChange(changes[j]).tag = sDELETED

\* C3: comparing a snapshot with itself returns the empty list.
C3_Idempotent ==
    (dpc = "done" /\ oldRecords = newRecords) => changes = <<>>

C3_Witness ==
    /\ dpc = "done"
    /\ oldRecords = newRecords
    /\ \E k \in Keys(oldRecords) : Cardinality(GroupValues(oldRecords, k)) = 2
    /\ changes = <<>>

\* C4: exchanging the two snapshots gives the same entries with the tags
\* inverted (ADDED<->REMOVED, NEW<->DELETED), each as often.
C4_SwapSymmetry ==
    dpc = "done" =>
        SortStrings([i \in DOMAIN changes |-> InvertEntry(changes[i])])
            = DetectChanges(newRecords, oldRecords)

C4_Witness ==
    /\ dpc = "done"
    /\ \E i, j \in DOMAIN changes :
        ParseChange(changes[i]).tag = sNEW /\ ParseChange(changes[j]).tag = sREMOVED

\* C5: the returned list is in ascending string order and does not depend on
\* the order of the records in either snapshot (nor on map iteration order).
\* Exchanging the first two records and rotating generate every reordering,
\* and every snapshot within the bounds is checked.
C5_SortedDeterministic ==
    dpc = "done" =>
        /\ IsSorted(changes)
        /\ DetectChanges(oldRecords, newRecords) = changes
        /\ \A o \in {SwapFirstTwo(oldRecords), Rotate(oldRecords)} :
                DetectChanges(o, newRecords) = changes
        /\ \A n \in {SwapFirstTwo(newRecords), Rotate(newRecords)} :
                DetectChanges(oldRecords, n) = changes

C5_Witness ==
    /\ dpc = "done"
    /\ Len(changes) >= 3
    /\ SwapFirstTwo(newRecords) # newRecords
    /\ \E i \in DOMAIN changes : ParseChange(changes[i]).tag = sNEW
    /\ \E i \in DOMAIN changes : ParseChange(changes[i]).tag = sDELETED


\* C7 as stated: adding to either snapshot a duplicate of a record it holds
\* (same kind, owner name and value, any ttl) leaves the returned list as it is.
C7_DuplicateSameList ==
    dpc = "done" =>
        /\ \A r \in Range(oldRecords) : \A t \in TTLs :
            DetectChanges(Append(oldRecords, [r EXCEPT !.ttl = t]), newRecords) = changes
        /\ \A r \in Range(newRecords) : \A t \in TTLs :
            DetectChanges(oldRecords, Append(newRecords, [r EXCEPT !.ttl = t])) = changes

\* C7 amended: a duplicate leaves the set of distinct entries as it is; the
\* list is unchanged when the duplicated (kind, owner name, value) is in both
\* snapshots, and otherwise repeats the entry of that record once more.
C7_DuplicateSameEntries ==
    dpc = "done" =>
        LET both == Triples(oldRecords) \cap Triples(newRecords)
            Same(r, cs) ==
                /\ Range(cs) = Range(changes)
                /\ <<r.type, r.name, r.value>> \in both => cs = changes
                /\ <<r.type, r.name, r.value>> \notin both => Len(cs) = Len(changes) + 1
        IN  /\ \A r \in Range(oldRecords) : \A t \in TTLs :
                Same(r, DetectChanges(Append(oldRecords, [r EXCEPT !.ttl = t]), newRecords))
            /\ \A r \in Range(newRecords) : \A t \in TTLs :
                Same(r, DetectChanges(oldRecords, Append(newRecords, [r EXCEPT !.ttl = t])))

C7_Witness ==
    /\ dpc = "done"
    /\ \E r \in Range(newRecords) : <<r.type, r.name, r.value>> \notin Triples(oldRecords)
    /\ \E r \in Range(newRecords) : <<r.type, r.name, r.value>> \in Triples(oldRecords)
    /\ \E r \in Range(oldRecords) : <<r.type, r.name, r.value>> \notin Triples(newRecords)
    /\ changes # <<>>


-----------------------------------------------------------------------------
(* Claims about RetryWithExponentialBackoff, checked under SpecRetry       *)

Last(s) == s[Len(s)]
AllFailed(s) == \A j \in DOMAIN s : s[j] \in Errs

\* C8: when the operation first succeeds on its k-th invocation (k <=
\* attempts) the call returns success after exactly k invocations: a success
\* is never followed by another invocation, it ends the call with nil after
\* k-1 waits, and without cancellation the call never ends before a success
\* or the attempts-th invocation.
C8_SuccessStops ==
    /\ \A j \in 1..(Len(rOutcomes) - 1) : rOutcomes[j] # "nil"
    /\ (rOutcomes # <<>> /\ Last(rOutcomes) = "nil") =>
            /\ rpc = "done" /\ rResult = ReturnNil
            /\ Len(rWaits) = Len(rOutcomes) - 1
            /\ Len(rOutcomes) <= rAttempts
    /\ (~ctxDone /\ rpc = "done" /\ Len(rOutcomes) < rAttempts) =>
            rResult = ReturnNil /\ Last(rOutcomes) = "nil"
    /\ (~ctxDone /\ rpc # "done" /\ AllFailed(rOutcomes)) => Len(rOutcomes) <= rAttempts
    /\ (~ctxDone /\ rpc = "call") => Len(rOutcomes) < rAttempts

\* failing twice, then succeeding, with attempts = 5: three invocations
C8_Witness ==
    /\ rAttempts = 5 /\ ~ctxDone
    /\ Len(rOutcomes) = 3 /\ rOutcomes[1] \in Errs /\ rOutcomes[2] \in Errs
    /\ rOutcomes[3] = "nil"
    /\ rpc = "done" /\ rResult = ReturnNil

\* C9: when every invocation fails and the context is not cancelled, the
\* operation is invoked exactly attempts times and the aggregate error
\* reports attempts and wraps the error of the last invocation.
C9_AllFail ==
    /\ (rpc = "done" /\ ~ctxDone /\ AllFailed(rOutcomes)) =>
            /\ Len(rOutcomes) = rAttempts
            /\ rResult = ReturnAggregate(rAttempts, Last(rOutcomes))
    /\ rResult.kind = "aggregate" =>
            /\ rpc = "done" /\ AllFailed(rOutcomes) /\ Len(rOutcomes) = rAttempts
            /\ rResult.attempts = rAttempts /\ rResult.wraps = Last(rOutcomes)

C9_Witness ==
    /\ rpc = "done" /\ ~ctxDone /\ rAttempts = 3
    /\ rOutcomes = <<"e1", "e1", "e2">>
    /\ rResult = ReturnAggregate(3, "e2")

\* C10: from a backoff wait, once the context is cancelled the call does not
\* invoke the operation again and its next step returns the cancellation
\* error (not nil, not the aggregate error).
C10_CancelInWait ==
    [][(rpc = "wait" /\ ctxDone') =>
            /\ rOutcomes' = rOutcomes
            /\ \/ rpc' = "wait" /\ rResult' = rResult
               \/ rpc' = "done" /\ rResult' = ReturnCtxErr]_vars

C10_Witness ==
    /\ rCancelledInWait
    /\ rpc = "done" /\ rResult = ReturnCtxErr
    /\ Len(rOutcomes) = 2 /\ rAttempts = 5


-----------------------------------------------------------------------------
(* Claims about the check cycle, checked under SpecMonitor                 *)

\* the same records in the same order, TTLs apart
DifferOnlyInTTL(a, b) ==
    /\ Len(a) = Len(b)
    /\ \A i \in DOMAIN a :
        /\ a[i].type = b[i].type /\ a[i].name = b[i].name /\ a[i].value = b[i].value

\* the snapshot with every ttl set to 0
WithoutTTL(s) == [i \in DOMAIN s |-> [s[i] EXCEPT !.ttl = 0]]

\* C6: the change list of a cycle is the one of the two snapshots with their
\* TTLs erased; a fetch whose records differ from the previous snapshot only
\* in ttl gives an empty change list, and that check cycle ends at once:
\* nothing is sent, the state file and the in-memory previous snapshot stay
\* as they are.
C6_TTLOnly ==
    [][(mpc = "fetch" /\ mpc' # "fetch") =>
            /\ mChanges' = DetectChanges(WithoutTTL(prevState), WithoutTTL(currentRecords'))
            /\ DifferOnlyInTTL(prevState, currentRecords') =>
                    /\ mChanges' = <<>>
                    /\ mpc' = "idle"
                    /\ cycleLog' = <<>>
                    /\ stateFile' = stateFile
                    /\ prevState' = prevState]_vars

C6_Witness ==
    /\ mpc = "idle"
    /\ prevState # <<>>
    /\ currentRecords # prevState
    /\ DifferOnlyInTTL(prevState, currentRecords)
    /\ mChanges = <<>>
    /\ cycleLog = <<>>

-----------------------------------------------------------------------------
(* Claims about FetchDNSRecords, checked under SpecFetch                   *)

\* the k-th (domain, kind) pair of the two nested loops
PairAt(k) ==
    [domain |-> fDomains[((k - 1) \div Len(recordTypes)) + 1],
     type |-> recordTypes[((k - 1) % Len(recordTypes)) + 1]]

NumPairs == Len(fDomains) * Len(recordTypes)

\* the records the resolver holds for a pair, as snapshot records
RecordsOf(pair) ==
    [k \in DOMAIN Zone(pair.domain, pair.type) |->
        DNSRecord(pair.type, Zone(pair.domain, pair.type)[k].name,
                  Zone(pair.domain, pair.type)[k].data, Zone(pair.domain, pair.type)[k].ttl)]

\* C11: the fetch is best-effort. The pairs are handled one after the other
\* in loop order, whatever became of the earlier ones; a pair whose query
\* failed after its retries contributes nothing; the records collected are
\* exactly those of the pairs whose query succeeded, in loop order; and once
\* every pair has been handled the fetch returns them with a nil error, also
\* when every query failed.
C11_BestEffort ==
    /\ Len(fLog) <= NumPairs
    /\ \A k \in DOMAIN fLog :
            /\ fLog[k].domain = PairAt(k).domain
            /\ fLog[k].type = PairAt(k).type
            /\ fLog[k].result \in {"nil", "aggregate"}
            /\ fLog[k].result = "aggregate" => fLog[k].exchanges = retries
    /\ fAllRecords = ConcatAll([k \in DOMAIN fLog |->
                        IF fLog[k].result = "nil" THEN RecordsOf(PairAt(k)) ELSE <<>>])
    /\ fpc = "done" <=> Len(fLog) = NumPairs
    /\ fErr = (IF fpc = "done" THEN "nil" ELSE "none")

\* the fetch has returned; one pair failed after three exchanges, the pair
\* before it and the pair after it succeeded and their records are returned
C11_Witness ==
    /\ fpc = "done"
    /\ fErr = "nil"
    /\ \E k \in 2..(NumPairs - 1) :
            /\ fLog[k].result = "aggregate"
            /\ fLog[k].exchanges = retries
            /\ RecordsOf(PairAt(k)) # <<>>
            /\ fLog[k - 1].result = "nil"
            /\ fLog[k + 1].result = "nil"
    /\ fAllRecords # <<>>
-----------------------------------------------------------------------------
(* Claims about main and performCheck, checked under SpecMonitor           *)

\* C12: the persisted state is loaded exactly once, at startup (the load is
\* left with an outcome and never entered again), and the step that leaves
\* the startup phase starts the first check cycle: no tick is consumed and
\* main does not idle or exit before it, nor does a pending shutdown signal
\* disable it.
C12_LoadThenFirstCycle ==
    [][ /\ (mpc = "load" /\ mpc' # "load") => (loadOutcome = "none" /\ loadOutcome' # "none")
        /\ mpc # "load" => (mpc' # "load" /\ loadOutcome # "none" /\ loadOutcome' = loadOutcome)
        /\ (cycles = 0 /\ mpc' # mpc) => mpc' \in {"load_notify", "first_check", "fetch"}
        /\ (cycles = 0 /\ cycles' # 0) =>
                (mpc = "first_check" /\ mpc' = "fetch" /\ cycles' = 1)
        /\ (cycles = 0 /\ tickPending) => tickPending'
        /\ (mpc = "first_check" /\ stopPending) => ENABLED FirstCheck
      ]_vars

\* the first cycle has run to its end although a shutdown signal and a tick
\* are pending
C12_Witness ==
    /\ mpc = "idle"
    /\ cycles = 1
    /\ loadOutcome = "loaded"
    /\ stopPending
    /\ tickPending

\* main is inside performCheck
InCycle(pc) == pc \in {"fetch", "notify", "save", "save_notify", "update"}

\* the steps of one performCheck, in order
CycleSuccessors(pc) ==
    CASE pc = "fetch" -> {"notify", "idle"}
      [] pc = "notify" -> {"save"}
      [] pc = "save" -> {"save_notify", "update"}
      [] pc = "save_notify" -> {"update"}
      [] pc = "update" -> {"idle"}
      [] OTHER -> {}

\* C13: a check cycle that has started moves only through its own steps to
\* its end; a cycle starts only when none is in progress; a tick is consumed
\* and the shutdown signal is served only in the idle wait between cycles.
C13_CyclesAtomic ==
    [][ /\ (InCycle(mpc) /\ mpc' # mpc) => mpc' \in CycleSuccessors(mpc)
        /\ (mpc' = "fetch" /\ mpc # "fetch") => mpc \in {"first_check", "idle"}
        /\ (tickPending /\ ~tickPending') => mpc = "idle"
        /\ (mpc' = "exited" /\ mpc # "exited") => (mpc = "idle" /\ stopPending)
      ]_vars

\* the second cycle stands at its last step while a shutdown signal and a
\* tick are pending
C13_Witness ==
    /\ mpc = "update"
    /\ cycles = 2
    /\ stopPending
    /\ tickPending

\* C14: with a non-empty change list the notification is attempted first
\* and the save of the fetched snapshot follows, whether the notification
\* was sent or failed; a cycle that is over with a non-empty list has logged
\* the notification attempt and then the save attempt, and a successful save
\* has written the fetched snapshot.
C14_NotifyThenSave ==
    [][ /\ (mpc = "fetch" /\ mpc' # mpc /\ mChanges' # <<>>) =>
                (mpc' = "notify" /\ cycleLog' = <<>> /\ stateFile' = stateFile)
        /\ (mpc = "notify" /\ mpc' # mpc) =>
                /\ mpc' = "save"
                /\ cycleLog' \in {<<"change_sent">>, <<"change_failed">>}
                /\ stateFile' = stateFile
        /\ (mpc = "save" /\ mpc' # mpc) =>
                /\ cycleLog \in {<<"change_sent">>, <<"change_failed">>}
                /\ \/ cycleLog' = Append(cycleLog, "saved") /\ stateFile' = FileOf(currentRecords)
                   \/ cycleLog' = Append(cycleLog, "save_failed")
                /\ mpc' \in {"save_notify", "update"}
        /\ (mpc = "update" /\ mpc' # mpc) =>
                (mpc' = "idle" /\ Len(cycleLog) >= 2 /\ cycleLog[2] \in {"saved", "save_failed"})
      ]_vars

\* a cycle is over whose notification failed and whose save succeeded
C14_Witness ==
    /\ mpc = "idle"
    /\ mChanges # <<>>
    /\ cycleLog = <<"change_failed", "saved">>
    /\ stateFile = FileOf(currentRecords)
    /\ currentRecords # <<>>

\* C15: once a cycle whose change list was non-empty is over, the in-memory
\* previous snapshot is the snapshot that cycle fetched, whatever became of
\* the save.
C15_PrevReplaced ==
    (mpc \in {"idle", "exited"} /\ mChanges # <<>>) => prevState = currentRecords

\* a cycle is over whose save failed: the file does not hold the fetched
\* snapshot, the in-memory state does
C15_Witness ==
    /\ mpc = "idle"
    /\ mChanges # <<>>
    /\ "save_failed" \in Range(cycleLog)
    /\ stateFile # FileOf(currentRecords)
    /\ currentRecords # <<>>
    /\ prevState = currentRecords

\* C16: a cycle whose change list is empty ends at once: nothing is sent or
\* saved, and neither the in-memory previous snapshot nor the state file
\* changes, in that step or in the idle wait that follows.
C16_EmptyNoEffect ==
    [][ /\ (mpc = "fetch" /\ mpc' # mpc /\ mChanges' = <<>>) =>
                /\ mpc' = "idle"
                /\ cycleLog = <<>> /\ cycleLog' = <<>>
                /\ prevState' = prevState
                /\ stateFile' = stateFile
        /\ mpc = "idle" =>
                /\ prevState' = prevState
                /\ stateFile' = stateFile
                /\ mChanges = <<>> => cycleLog = <<>>
      ]_vars

\* the second cycle fetched the very snapshot held in memory and on file
C16_Witness ==
    /\ mpc = "idle"
    /\ cycles = 2
    /\ mChanges = <<>>
    /\ cycleLog = <<>>
    /\ currentRecords # <<>>
    /\ currentRecords = prevState
    /\ stateFile = FileOf(prevState)

\* the (kind, owner_name, value) triples of a snapshot
RecordTriples(records) == {<<r.type, r.name, r.value>> : r \in Range(records)}

\* C17: when the previous cycle reported changes for the snapshot it fetched
\* and this cycle fetches the same (kind, owner_name, value) triples, this
\* cycle finds no change: it sends nothing and saves nothing, whatever became
\* of the notification and the save of the previous cycle.
C17_NoReAlert ==
    [][ ( /\ mpc = "fetch" /\ mpc' # mpc
          /\ mChanges # <<>>
          /\ RecordTriples(currentRecords') = RecordTriples(currentRecords) )
        => /\ mChanges' = <<>>
           /\ mpc' = "idle"
           /\ cycleLog' = <<>>
           /\ stateFile' = stateFile
           /\ prevState' = prevState
      ]_vars

\* no state file at startup; the first cycle reported changes and its save
\* failed (the file does not hold what is in memory); the second cycle
\* fetched the same triples and reported nothing
C17_Witness ==
    /\ mpc = "idle"
    /\ cycles = 2
    /\ loadOutcome = "not_found"
    /\ prevState # <<>>
    /\ stateFile # FileOf(prevState)
    /\ RecordTriples(currentRecords) = RecordTriples(prevState)
    /\ mChanges = <<>>
    /\ cycleLog = <<>>

-----------------------------------------------------------------------------
(* Claims about shutdown during a retried operation, checked under SpecCall *)

\* C18: a shutdown signal received while a DNS query or a notification is
\* in its backoff wait cancels that wait: with the signal received, the wait
\* ends only by the retried operation returning the cancellation error.
C18_SignalCancelsWait ==
    [][ (rpc = "wait" /\ stopPending /\ rpc' # rpc) =>
            (rpc' = "done" /\ rResult' = ReturnCtxErr)
      ]_vars

-----------------------------------------------------------------------------
(* Claims about the startup of main, checked under SpecMonitor             *)

-----------------------------------------------------------------------------
(* Claims about generateDomainsToCheck, checked under SpecEnum             *)

\* C20: the list returned by generateDomainsToCheck never contains the same
\* name twice.
C20_NoDuplicates ==
    epc = "done" =>
        \A i, j \in DOMAIN eDomains : eDomains[i] = eDomains[j] => i = j

\* a configured custom entry is a subdomain label when it holds no dot, and
\* a full domain name otherwise
IsLabel(entry) == \A k \in DOMAIN entry : entry[k] # Dot

\* the names the enumeration is to hold for a configuration
ExpectedDomains(config) ==
    {config.Domain, sDmarcDot \o config.Domain, sDomainkeyDot \o config.Domain,
     sWwwDot \o config.Domain}
    \cup {sel \o <<Dot>> \o sDomainkeyDot \o config.Domain :
                sel \in Range(config.CustomDkimSelectors)}
    \cup {entry \o <<Dot>> \o config.Domain :
                entry \in {e \in Range(config.CustomDomains) : IsLabel(e)}}
    \cup {e \in Range(config.CustomDomains) : ~IsLabel(e)}

\* C21: as a set, the list returned by generateDomainsToCheck holds the four
\* names derived from the domain, <selector>._domainkey.<domain> for every
\* DKIM selector, <label>.<domain> for every custom subdomain label and
\* every custom full domain name verbatim, and nothing else.
C21_SetContent ==
    epc = "done" => Range(eDomains) = ExpectedDomains(eConfig)

-----------------------------------------------------------------------------
(* Claims about the state store, checked under SpecStore                   *)

\* C22: round trip. After SavePreviousState(S) has succeeded, a
\* LoadPreviousState that can read the file returns, without error, a state
\* whose records are those of S, field by field and in the same order, also
\* for the empty S.
C22_RoundTrip ==
    (spc = "loaded" /\ sLoaded.io) =>
        /\ sLoaded.outcome = "loaded"
        /\ sLoaded.records = sState

\* a record whose name and value need escaping and whose TTL is the largest
\* one was saved over a corrupt file and read back
C22_Witness ==
    /\ spc = "loaded"
    /\ sLoaded.io
    /\ sState = <<DNSRecord(sTXT, <<Backslash, Quote, Dot>>, <<97, Quote>>, 2147483647)>>
    /\ sLoaded.records = sState
    /\ sFile.kind = "valid"

-----------------------------------------------------------------------------
(* Claims about SendNotification, checked under SpecNotify                 *)

\* what the transport is to be handed for a string and its limit
Limited(s, limit) ==
    IF Len(s) <= limit THEN s ELSE SubSeq(s, 1, limit - 3) \o <<46, 46, 46>>

\* C23: at every attempt the title handed to the transport has at most 250
\* bytes and the message at most 1024; a string within its limit is handed
\* over unchanged; a longer one is handed over as a string of exactly the
\* limit, made of its first limit - 3 bytes and "...".
C23_Sanitized ==
    /\ Len(nHanded) = Len(rOutcomes)
    /\ \A k \in DOMAIN nHanded :
            /\ Len(nHanded[k].title) <= 250
            /\ Len(nHanded[k].message) <= 1024
            /\ nHanded[k].title = Limited(nArgs.title, 250)
            /\ nHanded[k].message = Limited(nArgs.message, 1024)
            /\ Len(nArgs.title) > 250 =>
                    /\ Len(nHanded[k].title) = 250
                    /\ SubSeq(nHanded[k].title, 248, 250) = <<46, 46, 46>>
            /\ Len(nArgs.message) > 1024 =>
                    /\ Len(nHanded[k].message) = 1024
                    /\ SubSeq(nHanded[k].message, 1022, 1024) = <<46, 46, 46>>

\* five attempts were made with a title of 251 bytes and a message of 1024
C23_Witness ==
    /\ Len(nHanded) = maxRetries
    /\ Len(nArgs.title) = 251
    /\ Len(nArgs.message) = 1024
    /\ Len(nHanded[maxRetries].title) = 250
    /\ nHanded[maxRetries].message = nArgs.message

-----------------------------------------------------------------------------
(* Claims about the backoff waits, checked under SpecRetry                 *)

\* C24: a backoff wait follows a failed attempt only when attempts remain:
\* the call never waits after its last attempt, and a call that returned the
\* aggregate error has waited attempts - 1 times.
C24_WaitOnlyIfAttemptsRemain ==
    /\ rpc = "wait" => ri + 1 < rAttempts
    /\ rResult.kind = "aggregate" => Len(rWaits) = rAttempts - 1
    /\ (rpc = "done" /\ Len(rOutcomes) = rAttempts /\ AllFailed(rOutcomes)) =>
            rResult.kind = "aggregate"

RECURSIVE Pow2(_)
Pow2(n) == IF n = 0 THEN 1 ELSE 2 * Pow2(n - 1)

RECURSIVE Sum(_)
Sum(s) == IF s = <<>> THEN 0 ELSE Head(s) + Sum(Tail(s))

\* C25: the wait after the i-th failed attempt lasts initialDelay * 2^(i-1),
\* for the waits that ran to their end and for the one in progress; a call
\* that succeeded at its k-th attempt has waited
\* initialDelay * (2^(k-1) - 1) in all.
C25_DelayDoubles ==
    /\ \A i \in DOMAIN rWaits : rWaits[i] = rInitialDelay * Pow2(i - 1)
    /\ rpc = "wait" => (rDelay = rInitialDelay * Pow2(ri) /\ Len(rWaits) = ri)
    /\ rResult = ReturnNil =>
            /\ Len(rWaits) = Len(rOutcomes) - 1
            /\ Sum(rWaits) = rInitialDelay * (Pow2(Len(rOutcomes) - 1) - 1)

\* two failures, then a success, at 10ms: waits of 10ms and 20ms
C25_Witness ==
    /\ rResult = ReturnNil
    /\ rInitialDelay = 10
    /\ Len(rOutcomes) = 3
    /\ rWaits = <<10, 20>>
    /\ Sum(rWaits) = 30

-----------------------------------------------------------------------------
(* Claims about the order and the number of the queries, under SpecFetch   *)

sAAAA == <<65, 65, 65, 65>>        \* "AAAA"

\* the queries come one after the other: the pair being queried is the one
\* that follows the pairs already finished, each finished pair took one to
\* three exchanges and ended in a success or after the third failure, and
\* the kinds asked for are MX, TXT, CNAME and A, never AAAA
QueriesInSequence ==
    /\ fpc = "query" =>
            /\ Len(fLog) < NumPairs
            /\ fDomains[fi] = PairAt(Len(fLog) + 1).domain
            /\ recordTypes[fj] = PairAt(Len(fLog) + 1).type
            /\ Len(rOutcomes) <= retries
    /\ \A k \in DOMAIN fLog :
            /\ fLog[k].domain = PairAt(k).domain
            /\ fLog[k].type = PairAt(k).type
            /\ fLog[k].type \in {sMX, sTXT, sCNAME, sTypeA}
            /\ fLog[k].type # sAAAA
            /\ fLog[k].exchanges \in 1..retries
            /\ \/ fLog[k].result = "nil"
               \/ fLog[k].result = "aggregate" /\ fLog[k].exchanges = retries

\* once the fetch has returned, every (name, kind) pair of the enumeration
\* has been queried exactly once
EachPairOnce ==
    fpc = "done" =>
        \A d \in Range(fDomains) : \A t \in {sMX, sTXT, sCNAME, sTypeA} :
            Cardinality({k \in DOMAIN fLog : fLog[k].domain = d /\ fLog[k].type = t}) = 1

\* C26: in one fetch the queries are issued strictly one after another, every
\* (enumerated name, kind) pair with kind in MX, TXT, CNAME, A is queried
\* exactly once with one to three exchanges, no AAAA query is made, and no
\* pair is started before the previous one succeeded or exhausted its retries.
C26_OneQueryPerPair ==
    /\ QueriesInSequence
    /\ EachPairOnce

-----------------------------------------------------------------------------
(* The detector and the triple sets of its two snapshots, under SpecDetect *)

TripleOf(p) == <<p.type, p.name, p.value>>

\* the triples held by exactly one of two snapshots
OneSided(s, t) == (Triples(s) \ Triples(t)) \cup (Triples(t) \ Triples(s))

\* C27: DetectChanges(old, new) returns the empty list exactly when the two
\* snapshots hold the same set of (kind, owner, value) triples; every triple
\* held by exactly one snapshot is reported by at least one entry, and no
\* entry refers to a triple held by both.
C27_EmptyIffSameTriples ==
    dpc = "done" =>
        LET P == Parsed(changes) IN
        /\ changes = <<>> <=> Triples(oldRecords) = Triples(newRecords)
        /\ \A t \in OneSided(oldRecords, newRecords) :
                \E i \in DOMAIN P : TripleOf(P[i]) = t
        /\ \A i \in DOMAIN P :
                TripleOf(P[i]) \notin Triples(oldRecords) \cap Triples(newRecords)

\* two different snapshots that share a triple: the shared triple is left
\* out, the others are reported
C27_Witness ==
    /\ dpc = "done"
    /\ Triples(oldRecords) \cap Triples(newRecords) # {}
    /\ Triples(oldRecords) \ Triples(newRecords) # {}
    /\ Triples(newRecords) \ Triples(oldRecords) # {}
    /\ Len(changes) = Cardinality(OneSided(oldRecords, newRecords))

-----------------------------------------------------------------------------
(* Claims about the state a check cycle leaves behind, under SpecMonitor   *)

\* C28: at the end of every completed check cycle, whatever became of the
\* notification and of the save, the in-memory previous state holds the same
\* (kind, owner, value) triples as the snapshot fetched in that cycle.
C28_PrevMatchesFetched ==
    (mpc \in {"idle", "exited"} /\ cycles >= 1) =>
        RecordTriples(prevState) = RecordTriples(currentRecords)

\* a cycle found changes, its notification and its save both failed, and the
\* in-memory state is the snapshot of that cycle all the same
C28_Witness ==
    /\ mpc = "idle"
    /\ "change_failed" \in Range(cycleLog)
    /\ "save_failed" \in Range(cycleLog)
    /\ mChanges # <<>>
    /\ currentRecords # <<>>
    /\ prevState = currentRecords
    /\ stateFile # FileOf(currentRecords)

-----------------------------------------------------------------------------
(* A cycle whose fetch brought nothing back, under SpecMonitor             *)

\* one entry of the given tag per record, as DetectChanges returns them
EntriesOf(tag, records) ==
    SortStrings([i \in DOMAIN records |-> FormatChange(tag, records[i])])

\* performCheck stands between DetectChanges and the update of prevState in
\* a cycle that fetched nothing while there was a previous state
OutageDetected ==
    /\ mpc \in {"notify", "save", "save_notify", "update"}
    /\ currentRecords = <<>>
    /\ prevState # <<>>

\* the last cycle fetched nothing and found changes, and has returned
OutageCycleDone ==
    /\ mpc \in {"idle", "exited"}
    /\ currentRecords = <<>>
    /\ mChanges # <<>>

\* the first performCheck after such a cycle that fetches records: it stands
\* at its fetch with the results of the cycle before still in place
NextCycleReportsNew ==
    (/\ mpc = "fetch"
     /\ currentRecords = <<>>
     /\ mChanges # <<>>
     /\ currentRecords' # <<>>) =>
        /\ prevState = <<>>
        /\ mChanges' = EntriesOf(sNEW, currentRecords')
        /\ mpc' = "notify"

\* C29 as stated: when the fetch of a cycle returns the empty snapshot (every
\* query failed) and the previous state is not empty, every previous record
\* is reported as DELETED, the persisted state and the in-memory state are
\* both overwritten with the empty snapshot, and the next cycle that fetches
\* records reports every one of them as NEW.
C29_OutageOverwritesBoth ==
    /\ [](OutageDetected => mChanges = EntriesOf(sDELETED, prevState))
    /\ [](OutageCycleDone => (prevState = <<>> /\ stateFile = FileOf(<<>>)))
    /\ [][NextCycleReportsNew]_vars

\* C29, amended: as above, but the persisted state is overwritten with the
\* empty snapshot only when SavePreviousState succeeds; the save is attempted
\* in every such cycle, and when it fails the file keeps its earlier content
\* or is left cut short while the in-memory state is emptied all the same.
C29_OutageOverwrites ==
    /\ [](OutageDetected => mChanges = EntriesOf(sDELETED, prevState))
    /\ [](OutageCycleDone =>
            /\ prevState = <<>>
            /\ Range(cycleLog) \cap {"saved", "save_failed"} # {}
            /\ "saved" \in Range(cycleLog) => stateFile = FileOf(<<>>))
    /\ [][NextCycleReportsNew]_vars

\* a cycle that fetched nothing has reported the previous records as DELETED,
\* has saved the empty snapshot and emptied the in-memory state; the next
\* tick is pending
C29_Witness ==
    /\ mpc = "idle"
    /\ tickPending
    /\ currentRecords = <<>>
    /\ mChanges # <<>>
    /\ \A i \in DOMAIN mChanges : ParseChange(mChanges[i]).tag = sDELETED
    /\ "saved" \in Range(cycleLog)
    /\ stateFile = FileOf(<<>>)
    /\ prevState = <<>>

-----------------------------------------------------------------------------
(* The shutdown signal and the select of the main loop, under SpecMonitor  *)

\* main has returned: nothing is sent, nothing is written, nothing starts
ExitedIsFinal ==
    [][mpc = "exited" =>
            UNCHANGED <<mpc, cycleLog, stateFile, prevState, currentRecords, mChanges,
                        cycles>>]_vars

\* C30: once the shutdown signal has been delivered no new check cycle is
\* started: when main stands in its wait with the signal pending, with or
\* without a pending tick, the step it takes is the exit and not another
\* cycle; and after the exit no notification is sent and no state is written.
C30_ShutdownWins ==
    /\ [][(AtSelect(mpc) /\ stopPending /\ mpc' # mpc) => mpc' = "exited"]_vars
    /\ ExitedIsFinal

=============================================================================
